---- MODULE Spec2Model ----
(***************************************************************************)
(* Model of src/decimal.rs: the Decimal fixed-point type, a wrapper over   *)
(* the 192-bit unsigned integer U192 (construct_uint! { U192(3) }).        *)
(*                                                                         *)
(* The values involved (up to 2^192, products up to 2^384) are far wider   *)
(* than the model checker's machine integers, so an unsigned integer is a  *)
(* little-endian sequence of limbs in base 10^4 with no leading zero limb  *)
(* (zero is the empty sequence).  All arithmetic below is exact arithmetic *)
(* on these numbers; the 192-, 128- and 64-bit widths are enforced where   *)
(* the code enforces them (checked_*, try_from, native multiplication).    *)
(***************************************************************************)
EXTENDS Integers, Sequences, FiniteSets, TLC

VARIABLES self, arg, op, res

vars == <<self, arg, op, res>>

(***************************************************************************)
(* Unsigned integers of arbitrary size.                                    *)
(***************************************************************************)
Base == 10000

LimbDigits == 4

RECURSIVE Norm(_)
Norm(s) ==
    IF s = <<>> THEN <<>>
    ELSE IF s[Len(s)] = 0 THEN Norm(SubSeq(s, 1, Len(s) - 1))
    ELSE s

Limb(s, i) == IF i <= Len(s) THEN s[i] ELSE 0

MaxOf(m, n) == IF m >= n THEN m ELSE n

RECURSIVE FromInt(_)
FromInt(n) == IF n = 0 THEN <<>> ELSE <<n % Base>> \o FromInt(n \div Base)

RECURSIVE AddFrom(_, _, _, _)
AddFrom(x, y, i, c) ==
    IF i > MaxOf(Len(x), Len(y))
    THEN (IF c = 0 THEN <<>> ELSE <<c>>)
    ELSE LET t == Limb(x, i) + Limb(y, i) + c
         IN  <<t % Base>> \o AddFrom(x, y, i + 1, t \div Base)

Add(x, y) == AddFrom(x, y, 1, 0)

RECURSIVE CmpFrom(_, _, _)
CmpFrom(x, y, i) ==
    IF i = 0 THEN 0
    ELSE IF x[i] < y[i] THEN -1
    ELSE IF x[i] > y[i] THEN 1
    ELSE CmpFrom(x, y, i - 1)

Cmp(x, y) ==
    IF Len(x) < Len(y) THEN -1
    ELSE IF Len(x) > Len(y) THEN 1
    ELSE CmpFrom(x, y, Len(x))

Less(x, y) == Cmp(x, y) < 0

Leq(x, y) == Cmp(x, y) <= 0

RECURSIVE SubFrom(_, _, _, _)
SubFrom(x, y, i, b) ==
    IF i > Len(x) THEN <<>>
    ELSE LET t == x[i] - Limb(y, i) - b
         IN  IF t < 0 THEN <<t + Base>> \o SubFrom(x, y, i + 1, 1)
             ELSE <<t>> \o SubFrom(x, y, i + 1, 0)

\* x - y for x >= y
Sub(x, y) == Norm(SubFrom(x, y, 1, 0))

RECURSIVE MulSmallFrom(_, _, _, _)
MulSmallFrom(x, m, i, c) ==
    IF i > Len(x)
    THEN (IF c = 0 THEN <<>> ELSE <<c>>)
    ELSE LET t == x[i] * m + c
         IN  <<t % Base>> \o MulSmallFrom(x, m, i + 1, t \div Base)

\* x * m for a single limb m
MulSmall(x, m) == IF m = 0 THEN <<>> ELSE MulSmallFrom(x, m, 1, 0)

ShiftLimb(x) == IF x = <<>> THEN <<>> ELSE <<0>> \o x

RECURSIVE Mul(_, _)
Mul(x, y) ==
    IF y = <<>> \/ x = <<>> THEN <<>>
    ELSE Add(MulSmall(x, y[1]), ShiftLimb(Mul(x, Tail(y))))

\* the largest limb d in lo..hi-1 with y * d <= r, given y * lo <= r < y * hi
RECURSIVE QuotLimb(_, _, _, _)
QuotLimb(r, y, lo, hi) ==
    IF hi - lo <= 1 THEN lo
    ELSE LET mid == (lo + hi) \div 2
         IN  IF Leq(MulSmall(y, mid), r)
             THEN QuotLimb(r, y, mid, hi)
             ELSE QuotLimb(r, y, lo, mid)

\* long division of the limbs x[1..i] (most significant first), y /= 0
RECURSIVE DivModFrom(_, _, _, _, _)
DivModFrom(x, y, i, q, r) ==
    IF i = 0 THEN [quot |-> Norm(q), rem |-> r]
    ELSE LET r1 == Norm(<<x[i]>> \o r)
             d  == IF Less(r1, y) THEN 0 ELSE QuotLimb(r1, y, 1, Base)
             r2 == IF d = 0 THEN r1 ELSE Sub(r1, MulSmall(y, d))
         IN  DivModFrom(x, y, i - 1, <<d>> \o q, r2)

DivMod(x, y) == DivModFrom(x, y, Len(x), <<>>, <<>>)

Div(x, y) == DivMod(x, y).quot

Mod(x, y) == DivMod(x, y).rem

RECURSIVE Pow(_, _)
Pow(b, e) ==
    IF e = 0 THEN <<1>>
    ELSE IF e % 2 = 0 THEN LET h == Pow(b, e \div 2) IN Mul(h, h)
    ELSE Mul(b, Pow(b, e - 1))

RECURSIVE DigitsOf(_, _)
DigitsOf(n, k) ==
    IF k = 0 THEN <<>>
    ELSE DigitsOf(n \div 10, k - 1) \o <<(<<"0", "1", "2", "3", "4", "5", "6", "7", "8", "9">>)[(n % 10) + 1]>>

RECURSIVE StripZeros(_)
StripZeros(cs) ==
    IF Len(cs) > 1 /\ Head(cs) = "0" THEN StripZeros(Tail(cs)) ELSE cs

RECURSIVE LimbsToString(_, _)
LimbsToString(x, i) ==
    IF i = 0 THEN <<>> ELSE DigitsOf(x[i], LimbDigits) \o LimbsToString(x, i - 1)

\* the decimal digits of x, most significant first, "0" for zero
to_string(x) == IF x = <<>> THEN <<"0">> ELSE StripZeros(LimbsToString(x, Len(x)))

(***************************************************************************)
(* Integer widths.                                                         *)
(***************************************************************************)
U8_MAX == FromInt(255)

U16_MAX == FromInt(65535)

U64_MAX == Sub(Pow(<<2>>, 64), <<1>>)

U128_MAX == Sub(Pow(<<2>>, 128), <<1>>)

U192_MAX == Sub(Pow(<<2>>, 192), <<1>>)

(***************************************************************************)
(* Constants of crate::common.                                             *)
(***************************************************************************)
SCALE == 18

WAD == Pow(<<10>>, SCALE)

HALF_WAD == MulSmall(Pow(<<10>>, SCALE - 1), 5)

PERCENT_SCALER == Pow(<<10>>, SCALE - 2)

BPS_SCALER == Pow(<<10>>, SCALE - 4)

(***************************************************************************)
(* Outcomes of a call: a plain value, Ok(value), Err(MathOverflow), or a   *)
(* panic.                                                                  *)
(***************************************************************************)
Value(v) == [tag |-> "Value", val |-> v]

Ok(v) == [tag |-> "Ok", val |-> v]

MathOverflow == [tag |-> "MathOverflow", val |-> <<>>]

Panic == [tag |-> "Panic", val |-> <<>>]

Some(v) == [some |-> TRUE, v |-> v]

None == [some |-> FALSE, v |-> <<>>]

(***************************************************************************)
(* U192: checked operations, the panicking operator *, narrowing.          *)
(***************************************************************************)
checked_add(x, y) ==
    LET s == Add(x, y) IN IF Leq(s, U192_MAX) THEN Some(s) ELSE None

checked_sub(x, y) == IF Less(x, y) THEN None ELSE Some(Sub(x, y))

checked_mul(x, y) ==
    LET p == Mul(x, y) IN IF Leq(p, U192_MAX) THEN Some(p) ELSE None

checked_div(x, y) == IF y = <<>> THEN None ELSE Some(Div(x, y))

\* U192 * U192: the operator panics when the product does not fit
U192_mul(x, y) ==
    LET p == Mul(x, y) IN IF Leq(p, U192_MAX) THEN Value(p) ELSE Panic

u64_try_from(v) == IF Leq(v, U64_MAX) THEN Ok(v) ELSE MathOverflow

u128_try_from(v) == IF Leq(v, U128_MAX) THEN Ok(v) ELSE MathOverflow

\* u64 * u64 of the language: on overflow the build either panics (overflow
\* checks on) or wraps modulo 2^64 (overflow checks off)
u64_mul(x, y) ==
    LET p == Mul(x, y)
    IN  IF Leq(p, U64_MAX) THEN {Value(p)}
        ELSE {Panic, Value(Mod(p, Add(U64_MAX, <<1>>)))}

(***************************************************************************)
(* impl Decimal                                                            *)
(***************************************************************************)
wad == WAD

half_wad == HALF_WAD

one == wad

zero == <<>>

from_percent(percent) == u64_mul(percent, PERCENT_SCALER)

from_percent_u64(percent) == u64_mul(percent, PERCENT_SCALER)

\* to_percent with the scaler of to_bps
to_percent_by_bps(s) == u128_try_from(Div(s, BPS_SCALER))

to_percent(s) == u128_try_from(Div(s, PERCENT_SCALER))

to_bps(s) == u128_try_from(Div(s, BPS_SCALER))

from_bps(bps) == u64_mul(bps, BPS_SCALER)

to_scaled_val(s) == u128_try_from(s)

from_scaled_val(scaled_val) == Value(scaled_val)

\* try_round_u64 without the half added before the division
try_round_u64_truncating(s) ==
    LET rounded_val == checked_div(s, wad)
    IN  IF ~rounded_val.some THEN MathOverflow
        ELSE u64_try_from(rounded_val.v)

try_round_u64(s) ==
    LET a == checked_add(half_wad, s)
    IN  IF ~a.some THEN MathOverflow
        ELSE LET rounded_val == checked_div(a.v, wad)
             IN  IF ~rounded_val.some THEN MathOverflow
                 ELSE u64_try_from(rounded_val.v)

try_round_u128(s) ==
    LET a == checked_add(half_wad, s)
    IN  IF ~a.some THEN MathOverflow
        ELSE LET rounded_val == checked_div(a.v, wad)
             IN  IF ~rounded_val.some THEN MathOverflow
                 ELSE u128_try_from(rounded_val.v)

try_ceil_u64(s) ==
    LET w == checked_sub(wad, <<1>>)
    IN  IF ~w.some THEN MathOverflow
        ELSE LET a == checked_add(w.v, s)
             IN  IF ~a.some THEN MathOverflow
                 ELSE LET ceil_val == checked_div(a.v, wad)
                      IN  IF ~ceil_val.some THEN MathOverflow
                          ELSE u64_try_from(ceil_val.v)

try_ceil_u128(s) ==
    LET w == checked_sub(wad, <<1>>)
    IN  IF ~w.some THEN MathOverflow
        ELSE LET a == checked_add(w.v, s)
             IN  IF ~a.some THEN MathOverflow
                 ELSE LET ceil_val == checked_div(a.v, wad)
                      IN  IF ~ceil_val.some THEN MathOverflow
                          ELSE u128_try_from(ceil_val.v)

try_floor_u64(s) ==
    LET ceil_val == checked_div(s, wad)
    IN  IF ~ceil_val.some THEN MathOverflow ELSE u64_try_from(ceil_val.v)

try_floor_u128(s) ==
    LET ceil_val == checked_div(s, wad)
    IN  IF ~ceil_val.some THEN MathOverflow ELSE u128_try_from(ceil_val.v)

(***************************************************************************)
(* impl fmt::Display for Decimal                                           *)
(***************************************************************************)
Zeros(n) == [i \in 1..n |-> "0"]

\* fmt with < for <= in the test of the digit string's length
fmt_strict(s) ==
    LET scaled_val == to_string(s)
        len == Len(scaled_val)
    IN  IF len < SCALE
        THEN Ok(<<"0", ".">> \o Zeros(SCALE - len) \o scaled_val)
        ELSE Ok(SubSeq(scaled_val, 1, len - SCALE) \o <<".">>
                \o SubSeq(scaled_val, len - SCALE + 1, len))

fmt(s) ==
    LET scaled_val == to_string(s)
        len == Len(scaled_val)
    IN  IF len <= SCALE
        THEN Ok(<<"0", ".">> \o Zeros(SCALE - len) \o scaled_val)
        ELSE Ok(SubSeq(scaled_val, 1, len - SCALE) \o <<".">>
                \o SubSeq(scaled_val, len - SCALE + 1, len))

(***************************************************************************)
(* impl From<u64>, From<u128>, From<Rate> for Decimal                      *)
(***************************************************************************)
from_u64(val) == U192_mul(wad, val)

\* from(u128) multiplying in u128 before widening, wrapping modulo 2^128
from_u128_native(val) == Value(Mod(Mul(wad, val), Add(U128_MAX, <<1>>)))

from_u128(val) == U192_mul(wad, val)

\* val stands for val.to_scaled_val(), the rate's raw value
from_Rate(val) == Value(val)

(***************************************************************************)
(* impl TryAdd, TrySub, TryDiv, TryMul for Decimal                         *)
(***************************************************************************)
\* try_add calling the primitive of try_sub
try_add_as_sub(s, rhs) ==
    LET r == checked_sub(s, rhs) IN IF r.some THEN Ok(r.v) ELSE MathOverflow

try_add(s, rhs) ==
    LET r == checked_add(s, rhs) IN IF r.some THEN Ok(r.v) ELSE MathOverflow

\* try_sub with a wrapping subtraction, modulo 2^192
try_sub_wrapping(s, rhs) ==
    IF Less(s, rhs) THEN Ok(Sub(Add(s, Add(U192_MAX, <<1>>)), rhs))
    ELSE Ok(Sub(s, rhs))

try_sub(s, rhs) ==
    LET r == checked_sub(s, rhs) IN IF r.some THEN Ok(r.v) ELSE MathOverflow

try_div_u64(s, rhs) ==
    LET r == checked_div(s, rhs) IN IF r.some THEN Ok(r.v) ELSE MathOverflow

try_div_u128(s, rhs) ==
    LET r == checked_div(s, rhs) IN IF r.some THEN Ok(r.v) ELSE MathOverflow

\* try_div with the operator / for checked_div: a zero divisor panics
try_div_panicking(s, rhs) ==
    LET m == checked_mul(s, wad)
    IN  IF ~m.some THEN MathOverflow
        ELSE IF rhs = <<>> THEN Panic ELSE Ok(Div(m.v, rhs))

try_div(s, rhs) ==
    LET m == checked_mul(s, wad)
    IN  IF ~m.some THEN MathOverflow
        ELSE LET r == checked_div(m.v, rhs)
             IN  IF r.some THEN Ok(r.v) ELSE MathOverflow

try_div_Rate(s, rhs) == try_div(s, from_Rate(rhs).val)

try_mul_u64(s, rhs) ==
    LET r == checked_mul(s, rhs) IN IF r.some THEN Ok(r.v) ELSE MathOverflow

try_mul_u128(s, rhs) ==
    LET r == checked_mul(s, rhs) IN IF r.some THEN Ok(r.v) ELSE MathOverflow

\* try_mul with a double-width intermediate product
try_mul_wide(s, rhs) ==
    LET r == Div(Mul(s, rhs), wad)
    IN  IF Leq(r, U192_MAX) THEN Ok(r) ELSE MathOverflow

try_mul(s, rhs) ==
    LET m == checked_mul(s, rhs)
    IN  IF ~m.some THEN MathOverflow
        ELSE LET r == checked_div(m.v, wad)
             IN  IF r.some THEN Ok(r.v) ELSE MathOverflow

try_mul_Rate(s, rhs) == try_mul(s, from_Rate(rhs).val)

(***************************************************************************)
(* Inputs: the receiver's raw value and the argument, drawn from the       *)
(* neighbourhoods of the values where the code's behaviour changes.        *)
(***************************************************************************)
MaxDelta == 1

MaxPercent == 100

Near(x) ==
    {x} \cup {Add(x, FromInt(d)) : d \in 1..MaxDelta}
        \cup {Sub(x, FromInt(d)) : d \in {e \in 1..MaxDelta : Leq(FromInt(e), x)}}

InU192(S) == {v \in S : Leq(v, U192_MAX)}

SelfAnchors ==
    { <<>>, HALF_WAD, WAD, Add(WAD, HALF_WAD), MulSmall(WAD, 5),
      Mul(U64_MAX, WAD), Pow(<<2>>, 96), Add(U128_MAX, <<1>>),
      Div(U192_MAX, WAD), U192_MAX }

ArgAnchors ==
    { <<>>, FromInt(100), Div(Add(U64_MAX, <<1>>), PERCENT_SCALER), U16_MAX,
      WAD, MulSmall(WAD, 3), Add(U64_MAX, <<1>>), Pow(<<2>>, 96),
      Add(U128_MAX, <<1>>), U192_MAX }

SelfValues == InU192(UNION {Near(x) : x \in SelfAnchors})

ArgValues == InU192(UNION {Near(x) : x \in ArgAnchors})

Percents == {FromInt(p) : p \in 0..MaxPercent}

Inputs == (SelfValues \X ArgValues) \cup ({zero} \X Percents)

Init ==
    /\ \E in \in Inputs : self = in[1] /\ arg = in[2]
    /\ op = "init"
    /\ res = Value(<<>>)

\* One behaviour is one call: the caller holds the receiver and the argument
\* (op = "init"), calls one function, and keeps its outcome.  The functions
\* are pure, so a later call on the same inputs would add nothing.
Call(name, outcome) ==
    /\ op = "init"
    /\ op' = name
    /\ res' = outcome
    /\ UNCHANGED <<self, arg>>

FromPercent ==
    /\ Leq(arg, U8_MAX)
    /\ \E r \in from_percent(arg) : Call("from_percent", r)

FromPercentU64 ==
    /\ Leq(arg, U64_MAX)
    /\ \E r \in from_percent_u64(arg) : Call("from_percent_u64", r)

ToPercent == Call("to_percent", to_percent(self))

ToBps == Call("to_bps", to_bps(self))

FromBps ==
    /\ Leq(arg, U16_MAX)
    /\ \E r \in from_bps(arg) : Call("from_bps", r)

ToScaledVal == Call("to_scaled_val", to_scaled_val(self))

FromScaledVal ==
    /\ Leq(arg, U128_MAX)
    /\ Call("from_scaled_val", from_scaled_val(arg))

TryRoundU64 == Call("try_round_u64", try_round_u64(self))

TryRoundU128 == Call("try_round_u128", try_round_u128(self))

TryCeilU64 == Call("try_ceil_u64", try_ceil_u64(self))

TryCeilU128 == Call("try_ceil_u128", try_ceil_u128(self))

TryFloorU64 == Call("try_floor_u64", try_floor_u64(self))

TryFloorU128 == Call("try_floor_u128", try_floor_u128(self))

Fmt == Call("fmt", fmt(self))

FromU64 ==
    /\ Leq(arg, U64_MAX)
    /\ Call("from_u64", from_u64(arg))

FromU128 ==
    /\ Leq(arg, U128_MAX)
    /\ Call("from_u128", from_u128(arg))

FromRate ==
    /\ Leq(arg, U128_MAX)
    /\ Call("from_Rate", from_Rate(arg))

TryAdd == Call("try_add", try_add(self, arg))

TrySub == Call("try_sub", try_sub(self, arg))

TryDivU64 ==
    /\ Leq(arg, U64_MAX)
    /\ Call("try_div_u64", try_div_u64(self, arg))

TryDivU128 ==
    /\ Leq(arg, U128_MAX)
    /\ Call("try_div_u128", try_div_u128(self, arg))

TryDivRate ==
    /\ Leq(arg, U128_MAX)
    /\ Call("try_div_Rate", try_div_Rate(self, arg))

TryDiv == Call("try_div", try_div(self, arg))

TryMulU64 ==
    /\ Leq(arg, U64_MAX)
    /\ Call("try_mul_u64", try_mul_u64(self, arg))

TryMulU128 ==
    /\ Leq(arg, U128_MAX)
    /\ Call("try_mul_u128", try_mul_u128(self, arg))

TryMulRate ==
    /\ Leq(arg, U128_MAX)
    /\ Call("try_mul_Rate", try_mul_Rate(self, arg))

TryMul == Call("try_mul", try_mul(self, arg))

Next ==
    \/ FromPercent \/ FromPercentU64 \/ ToPercent \/ ToBps \/ FromBps
    \/ ToScaledVal \/ FromScaledVal
    \/ TryRoundU64 \/ TryRoundU128 \/ TryCeilU64 \/ TryCeilU128
    \/ TryFloorU64 \/ TryFloorU128
    \/ Fmt
    \/ FromU64 \/ FromU128 \/ FromRate
    \/ TryAdd \/ TrySub
    \/ TryDivU64 \/ TryDivU128 \/ TryDivRate \/ TryDiv
    \/ TryMulU64 \/ TryMulU128 \/ TryMulRate \/ TryMul

Spec == Init /\ [][Next]_vars

(***************************************************************************)
(* Properties.                                                             *)
(***************************************************************************)
\* q = floor(x / d), stated by multiplication: q * d <= x < (q + 1) * d
IsFloor(q, x, d) == Leq(Mul(q, d), x) /\ Less(x, Mul(Add(q, <<1>>), d))

\* c = ceil(x / d), stated by multiplication: (c - 1) * d < x <= c * d
IsCeil(c, x, d) ==
    /\ Leq(x, Mul(c, d))
    /\ c # <<>> => Less(Mul(Sub(c, <<1>>), d), x)

\* C1: for every Decimal a, the maximum 2^192 - 1 included,
\* a.try_mul(Decimal::one()) returns Ok(a).
C1_MulOneIdentity == (op = "try_mul" /\ arg = one) => res = Ok(self)

\* C2: for a >= b, a.try_sub(b) returns Ok(d) and d.try_add(b) returns Ok(a).
C2_SubAddRoundTrip ==
    (op = "try_sub" /\ Leq(arg, self)) =>
        (res.tag = "Ok" /\ try_add(res.val, arg) = Ok(self))

C2_Witness ==
    /\ op = "try_sub"
    /\ self = U192_MAX
    /\ arg = WAD
    /\ res.tag = "Ok"
    /\ try_add(res.val, arg) = Ok(self)

\* C3: a.try_sub(b) returns Err(MathOverflow) exactly when b > a, and an Ok
\* result is the true difference, never a value wrapped modulo 2^192.
C3_SubErrIffExceeds ==
    op = "try_sub" =>
        /\ (res = MathOverflow) <=> Less(self, arg)
        /\ res.tag \in {"Ok", "MathOverflow"}
        /\ res.tag = "Ok" => Add(res.val, arg) = self

C3_Witness ==
    /\ op = "try_sub"
    /\ self = WAD
    /\ arg = Add(WAD, <<1>>)
    /\ res = MathOverflow

\* C4: dividing by zero (the Decimal zero, 0u64 or 0u128) returns
\* Err(MathOverflow) for every receiver, those whose raw value times WAD
\* overflows 192 bits included; it never panics and never returns Ok.
C4_DivByZero ==
    (op \in {"try_div", "try_div_u64", "try_div_u128"} /\ arg = zero) =>
        res = MathOverflow

C4_Witness ==
    /\ op = "try_div"
    /\ arg = zero
    /\ self = WAD
    /\ res = MathOverflow

\* C5: for every u64 p, from_percent_u64(p) yields the Decimal whose raw
\* value is the exact product p * PERCENT_SCALER, without wrapping or panic.
C5_FromPercentU64Exact ==
    op = "from_percent_u64" => res = Value(Mul(arg, PERCENT_SCALER))

\* C6: for every u8 p in [0, 100], from_percent(p).to_percent() is Ok(p).
C6_PercentRoundTrip ==
    (op = "from_percent" /\ arg \in Percents) =>
        (res.tag = "Value" /\ to_percent(res.val) = Ok(arg))

C6_Witness ==
    /\ op = "from_percent"
    /\ arg = FromInt(100)
    /\ res = Value(Pow(<<10>>, SCALE))
    /\ to_percent(res.val) = Ok(arg)

\* C7: when the results fit in u64, try_floor_u64 is floor(r / WAD),
\* try_ceil_u64 is ceil(r / WAD) and try_round_u64 is
\* floor((r + HALF_WAD) / WAD); floor <= round <= ceil <= floor + 1; and
\* r = WAD + HALF_WAD rounds to 2, has ceiling 2 and floor 1.
C7_Rounding ==
    (/\ op \in {"try_floor_u64", "try_ceil_u64", "try_round_u64"}
     /\ Leq(self, Mul(U64_MAX, WAD))) =>
        LET f == try_floor_u64(self)
            c == try_ceil_u64(self)
            r == try_round_u64(self)
        IN  /\ res.tag = "Ok"
            /\ op = "try_floor_u64" => IsFloor(res.val, self, WAD)
            /\ op = "try_ceil_u64" => IsCeil(res.val, self, WAD)
            /\ op = "try_round_u64" =>
                   IsFloor(res.val, Add(self, HALF_WAD), WAD)
            /\ f.tag = "Ok" /\ c.tag = "Ok" /\ r.tag = "Ok"
            /\ Leq(f.val, r.val) /\ Leq(r.val, c.val)
            /\ Leq(c.val, Add(f.val, <<1>>))
            /\ self = Add(WAD, HALF_WAD) =>
                   /\ op = "try_floor_u64" => res = Ok(<<1>>)
                   /\ op = "try_ceil_u64" => res = Ok(<<2>>)
                   /\ op = "try_round_u64" => res = Ok(<<2>>)

C7_Witness ==
    /\ op = "try_round_u64"
    /\ self = Add(WAD, HALF_WAD)
    /\ res = Ok(<<2>>)
    /\ try_ceil_u64(self) = Ok(<<2>>)
    /\ try_floor_u64(self) = Ok(<<1>>)

\* C8: a.try_mul(b) returns Ok(floor(a.raw * b.raw / WAD)) when the product
\* a.raw * b.raw fits in 192 bits and Err(MathOverflow) otherwise, even if
\* the rescaled result would fit; 5 times 3 rounds to 15.
C8_MulDecimal ==
    op = "try_mul" =>
        /\ IF Leq(Mul(self, arg), U192_MAX)
           THEN res.tag = "Ok" /\ IsFloor(res.val, Mul(self, arg), WAD)
           ELSE res = MathOverflow
        /\ (self = MulSmall(WAD, 5) /\ arg = MulSmall(WAD, 3)) =>
               (res.tag = "Ok" /\ try_round_u64(res.val) = Ok(<<15>>))

C8_Witness ==
    /\ op = "try_mul"
    /\ self = Add(Div(U192_MAX, WAD), <<1>>)
    /\ arg = WAD
    /\ ~Leq(Mul(self, arg), U192_MAX)
    /\ Leq(Div(Mul(self, arg), WAD), U192_MAX)
    /\ res = MathOverflow

\* cs left-padded with zeros to n characters
PadLeft(cs, n) == Zeros(n - Len(cs)) \o cs

\* C9: Display renders the digits of floor(r / WAD) without leading zeros
\* ("0" when r < WAD), then ".", then exactly 18 digits: r mod WAD
\* left-padded with zeros; one is "1.000000000000000000", zero is
\* "0.000000000000000000"; rendering never fails.
C9_Display ==
    op = "fmt" =>
        /\ res.tag = "Ok"
        /\ res.val = to_string(Div(self, WAD)) \o <<".">>
                        \o PadLeft(to_string(Mod(self, WAD)), SCALE)
        /\ Len(res.val) = Len(to_string(Div(self, WAD))) + 1 + SCALE
        /\ self = one =>
               res.val = <<"1", ".", "0", "0", "0", "0", "0", "0", "0", "0", "0",
                           "0", "0", "0", "0", "0", "0", "0", "0", "0">>
        /\ self = zero =>
               res.val = <<"0", ".", "0", "0", "0", "0", "0", "0", "0", "0", "0",
                           "0", "0", "0", "0", "0", "0", "0", "0", "0">>

C9_Witness ==
    /\ op = "fmt"
    /\ self = HALF_WAD
    /\ res = Ok(<<"0", ".", "5", "0", "0", "0", "0", "0", "0", "0", "0",
                  "0", "0", "0", "0", "0", "0", "0", "0", "0">>)

\* C10: for every u64 and every u128 v, WAD * v is below 2^192, so
\* Decimal::from(v) never overflows, wraps or panics and its raw value is
\* exactly v * WAD.
C10_FromIntegerExact ==
    op \in {"from_u64", "from_u128"} =>
        /\ Leq(Mul(arg, WAD), U192_MAX)
        /\ res = Value(Mul(arg, WAD))

C10_Witness ==
    /\ op = "from_u128"
    /\ arg = U128_MAX
    /\ res = Value(Mul(U128_MAX, WAD))

====
